---------------------------- MODULE Spec2Model ----------------------------
(***************************************************************************)
(* Templates of the matched-filter detector                                *)
(* (eqcorrscan/core/match_filter/template.py): the Template object, its    *)
(* comparison operators, its constructors and group_templates.             *)
(*                                                                         *)
(* Python objects live in two heaps: heap (Template objects) and events    *)
(* (obspy Event objects).  A list of templates is a sequence of indices    *)
(* into heap, so that the same object can occur twice in a list and an     *)
(* in-place change of an object is seen through every reference to it.     *)
(* Strings are sequences of code points.                                   *)
(***************************************************************************)
EXTENDS Integers, Sequences, FiniteSets, TLC

VARIABLES heap, events, input, groups, regroups, pc, last, attached

vars == <<heap, events, input, groups, regroups, pc, last, attached>>

(***************************************************************************)
(* Values                                                                  *)
(***************************************************************************)

\* Python's None, for the numeric fields and the event reference.  The name
\* field holds a string; a name of None is the sequence <<None>>, which is
\* no string.
None == -1

NoName == <<None>>

\* The keys of Template.__dict__, in the order __init__ assigns them.
TemplateKeys ==
    <<"name", "st", "lowcut", "highcut", "samp_rate", "filt_order",
      "process_length", "prepick", "event">>

\* The header fields of a trace that __eq__ compares.
TraceKeys ==
    <<"network", "station", "channel", "location", "starttime", "endtime",
      "sampling_rate", "delta", "npts", "calib">>

\* The default keys of obspy's Stream.sort, most significant first.
SortKeys ==
    <<"network", "station", "location", "channel", "starttime", "endtime">>

\* A trace: times in milliseconds, data a sequence of samples, each a
\* multiple of 2^-26.
MkTrace(station, starttime, data, calib) ==
    [network |-> 1, station |-> station, location |-> 0, channel |-> 1,
     starttime |-> starttime,
     endtime |-> starttime + 10 * (Len(data) - 1),
     sampling_rate |-> 100, delta |-> 10, npts |-> Len(data),
     calib |-> calib, data |-> data]

\* The value of an st attribute: None, a single Trace or a Stream of traces.
NoSt == [kind |-> "None", traces |-> <<>>]

TraceSt(tr) == [kind |-> "Trace", traces |-> <<tr>>]

StreamSt(trs) == [kind |-> "Stream", traces |-> trs]

\* isinstance(st, Stream)
IsStream(st) == st.kind = "Stream"

\* isinstance(event, Event)
IsEvent(ev) == ev # None

(***************************************************************************)
(* Stream.sort: an in-place stable sort on SortKeys                        *)
(***************************************************************************)

RECURSIVE KeyLess(_, _, _)
\* t1 sorts strictly before t2 on SortKeys[k..]
KeyLess(t1, t2, k) ==
    IF k > Len(SortKeys) THEN FALSE
    ELSE IF t1[SortKeys[k]] < t2[SortKeys[k]] THEN TRUE
    ELSE IF t1[SortKeys[k]] > t2[SortKeys[k]] THEN FALSE
    ELSE KeyLess(t1, t2, k + 1)

RECURSIVE InsertStable(_, _)
\* tr inserted into the sorted sequence s, after every trace that does not
\* sort after it
InsertStable(s, tr) ==
    IF s = <<>> THEN <<tr>>
    ELSE IF KeyLess(tr, s[Len(s)], 1)
         THEN InsertStable(SubSeq(s, 1, Len(s) - 1), tr) \o <<s[Len(s)]>>
         ELSE s \o <<tr>>

RECURSIVE SortTraces(_)
SortTraces(s) ==
    IF s = <<>> THEN <<>>
    ELSE InsertStable(SortTraces(SubSeq(s, 1, Len(s) - 1)), s[Len(s)])

\* st.sort() on a Stream
SortSt(st) == [st EXCEPT !.traces = SortTraces(st.traces)]

(***************************************************************************)
(* Template.__eq__, __ne__, same_processing                                *)
(***************************************************************************)

RECURSIVE TraceStatsEqual(_, _, _)
\* the loop over trkey: no header field from TraceKeys[k] on differs
TraceStatsEqual(tr, oth_tr, k) ==
    IF k > Len(TraceKeys) THEN TRUE
    ELSE IF tr[TraceKeys[k]] # oth_tr[TraceKeys[k]] THEN FALSE
    ELSE TraceStatsEqual(tr, oth_tr, k + 1)

\* one turn of the loop over zip(...) does not return False
TraceEqual(tr, oth_tr) ==
    /\ tr.data = oth_tr.data
    /\ TraceStatsEqual(tr, oth_tr, 1)

Min(a, b) == IF a < b THEN a ELSE b

\* ZipEqual that walks the traces of s and looks each up in o, so that a
\* missing trace of o counts as a difference.
ZipEqualOverSelf(s, o) ==
    \A k \in 1..Len(s) : k <= Len(o) /\ TraceEqual(s[k], o[k])

\* for tr, oth_tr in zip(s, o): the loop ends without returning False.
\* zip stops at the end of the shorter sequence.
ZipEqual(s, o) ==
    \A k \in 1..Min(Len(s), Len(o)) : TraceEqual(s[k], o[k])

\* _test_event_similarity: all content of the events but the resource ids
EventSimilar(e1, e2) ==
    /\ e1.origin_time = e2.origin_time
    /\ e1.comments = e2.comments

RECURSIVE EqFrom(_, _, _, _)
\* the loop of __eq__ over self.__dict__.keys(), from the k-th key on
EqFrom(evs, self, other, k) ==
    IF k > Len(TemplateKeys) THEN TRUE
    ELSE LET key == TemplateKeys[k] IN
         IF key = "st" THEN
             IF IsStream(self.st) /\ IsStream(other.st)
             THEN /\ ZipEqual(SortTraces(self.st.traces),
                              SortTraces(other.st.traces))
                  /\ EqFrom(evs, self, other, k + 1)
             ELSE IF IsStream(self.st) # IsStream(other.st) THEN FALSE
             ELSE EqFrom(evs, self, other, k + 1)
         ELSE IF key = "event" THEN
             IF IsEvent(self.event) /\ IsEvent(other.event)
             THEN /\ EventSimilar(evs[self.event], evs[other.event])
                  /\ EqFrom(evs, self, other, k + 1)
             ELSE IF IsEvent(self.event) # IsEvent(other.event) THEN FALSE
             ELSE EqFrom(evs, self, other, k + 1)
         ELSE IF self[key] # other[key] THEN FALSE
         ELSE EqFrom(evs, self, other, k + 1)

\* the value of self == other
TemplateEq(evs, self, other) == EqFrom(evs, self, other, 1)

\* the value of self != other
TemplateNe(evs, self, other) == ~TemplateEq(evs, self, other)

RECURSIVE KeysAgreeBefore(_, _, _)
\* every key before the k-th compares equal under plain ==
KeysAgreeBefore(self, other, k) ==
    IF k <= 1 THEN TRUE
    ELSE /\ self[TemplateKeys[k - 1]] = other[TemplateKeys[k - 1]]
         /\ KeysAgreeBefore(self, other, k - 1)

\* __eq__ reaches the key 'st' with two Streams and sorts both in place
EqSorts(self, other) ==
    /\ KeysAgreeBefore(self, other, 2)
    /\ IsStream(self.st)
    /\ IsStream(other.st)

\* SkipKeys without 'prepick'.
SkipKeysComparePrepick == {"name", "st", "event", "template_info"}

\* The keys same_processing skips.
SkipKeys == {"name", "st", "prepick", "event", "template_info"}

RECURSIVE SameFrom(_, _, _)
SameFrom(self, other, k) ==
    IF k > Len(TemplateKeys) THEN TRUE
    ELSE IF TemplateKeys[k] \in SkipKeys THEN SameFrom(self, other, k + 1)
    ELSE IF self[TemplateKeys[k]] # other[TemplateKeys[k]] THEN FALSE
    ELSE SameFrom(self, other, k + 1)

\* the value of self.same_processing(other)
same_processing(self, other) == SameFrom(self, other, 1)

\* The heap after the call a == b (or a != b) on the objects a and b.
HeapAfterEq(h, a, b) ==
    IF EqSorts(h[a], h[b])
    THEN [o \in DOMAIN h |->
            IF o \in {a, b} THEN [h[o] EXCEPT !.st = SortSt(h[o].st)]
            ELSE h[o]]
    ELSE h

(***************************************************************************)
(* group_templates                                                         *)
(***************************************************************************)

\* One step of list.__contains__ for "master in group": the item is the
\* object master, or item == master is True.
ItemMatches(h, evs, item, master) ==
    \/ item = master
    \/ TemplateEq(evs, h[item], h[master])

\* The index of the first item of group that matches master; Len(group) + 1
\* when there is none.
FirstMatch(h, evs, group, master) ==
    IF \E k \in 1..Len(group) : ItemMatches(h, evs, group[k], master)
    THEN CHOOSE k \in 1..Len(group) :
            /\ ItemMatches(h, evs, group[k], master)
            /\ \A j \in 1..(k - 1) : ~ItemMatches(h, evs, group[j], master)
    ELSE Len(group) + 1

\* master in group
ListContains(h, evs, group, master) ==
    FirstMatch(h, evs, group, master) <= Len(group)

\* The objects that the __eq__ calls of "master in group" sort in place.
ContainsSorts(h, evs, group, master) ==
    UNION {IF group[k] # master /\ EqSorts(h[group[k]], h[master])
           THEN {group[k], master} ELSE {} :
           k \in 1..Min(FirstMatch(h, evs, group, master), Len(group))}

\* The index of the first group that contains master; Len + 1 when none does.
FirstGroupWith(h, evs, template_groups, master) ==
    IF \E g \in 1..Len(template_groups) :
            ListContains(h, evs, template_groups[g], master)
    THEN CHOOSE g \in 1..Len(template_groups) :
            /\ ListContains(h, evs, template_groups[g], master)
            /\ \A j \in 1..(g - 1) :
                   ~ListContains(h, evs, template_groups[j], master)
    ELSE Len(template_groups) + 1

\* MasterIsNew that looks at the master of each group only.
MasterIsNewAmongMasters(h, evs, template_groups, master) ==
    \A g \in 1..Len(template_groups) :
        ~ItemMatches(h, evs, template_groups[g][1], master)

\* The for ... else over template_groups runs its else branch.
MasterIsNew(h, evs, template_groups, master) ==
    FirstGroupWith(h, evs, template_groups, master) > Len(template_groups)

\* The objects sorted in place by the scan of template_groups for master.
ScanSorts(h, evs, template_groups, master) ==
    UNION {ContainsSorts(h, evs, template_groups[g], master) :
           g \in 1..Min(FirstGroupWith(h, evs, template_groups, master),
                        Len(template_groups))}

\* SlaveJoins without the test master != slave.
SlaveJoinsNoNe(h, evs, master, slave) ==
    same_processing(h[master], h[slave])

\* The condition under which a slave is appended to the group of master.
SlaveJoins(h, evs, master, slave) ==
    /\ same_processing(h[master], h[slave])
    /\ TemplateNe(evs, h[master], h[slave])

RECURSIVE Reverse(_)
Reverse(s) == IF s = <<>> THEN <<>> ELSE Reverse(Tail(s)) \o <<Head(s)>>

\* NewGroup with the slaves scanned from the end of the list.
NewGroupBackwards(h, evs, templates, master) ==
    <<master>> \o
    SelectSeq(Reverse(templates),
              LAMBDA slave : SlaveJoins(h, evs, master, slave))

\* new_group after the loop over the slaves
NewGroup(h, evs, templates, master) ==
    <<master>> \o
    SelectSeq(templates, LAMBDA slave : SlaveJoins(h, evs, master, slave))

\* The objects sorted in place by the master != slave calls: != is evaluated
\* only where same_processing holds.
NewGroupSorts(h, templates, master) ==
    UNION {IF /\ same_processing(h[master], h[templates[k]])
              /\ EqSorts(h[master], h[templates[k]])
           THEN {master, templates[k]} ELSE {} :
           k \in 1..Len(templates)}

RECURSIVE GroupLoop(_, _, _, _, _)
\* The loop over the masters from position p on; acc holds template_groups
\* and the objects sorted in place so far.
GroupLoop(h, evs, templates, p, acc) ==
    IF p > Len(templates) THEN acc
    ELSE LET master == templates[p] IN
         IF MasterIsNew(h, evs, acc.template_groups, master)
         THEN GroupLoop(h, evs, templates, p + 1,
                [template_groups |->
                    Append(acc.template_groups,
                           NewGroup(h, evs, templates, master)),
                 sorted |->
                    acc.sorted
                    \cup ScanSorts(h, evs, acc.template_groups, master)
                    \cup NewGroupSorts(h, templates, master)])
         ELSE GroupLoop(h, evs, templates, p + 1,
                [template_groups |-> acc.template_groups,
                 sorted |->
                    acc.sorted
                    \cup ScanSorts(h, evs, acc.template_groups, master)])

\* template_groups.remove(group) for an empty group: the first empty list
\* goes.
RemoveFirstEmpty(template_groups) ==
    LET k == CHOOSE k \in 1..Len(template_groups) :
                /\ template_groups[k] = <<>>
                /\ \A j \in 1..(k - 1) : template_groups[j] # <<>>
    IN SubSeq(template_groups, 1, k - 1)
       \o SubSeq(template_groups, k + 1, Len(template_groups))

RECURSIVE DropEmpty(_, _)
\* The last loop: it walks template_groups by index while it removes from it.
DropEmpty(template_groups, i) ==
    IF i > Len(template_groups) THEN template_groups
    ELSE IF Len(template_groups[i]) = 0
         THEN DropEmpty(RemoveFirstEmpty(template_groups), i + 1)
         ELSE DropEmpty(template_groups, i + 1)

\* BuiltGroups with template_groups = [[]] before the loop.
BuiltGroupsAfterEmptyList(h, evs, templates) ==
    GroupLoop(h, evs, templates, 1,
              [template_groups |-> <<<<>>>>, sorted |-> {}]).template_groups

\* The groups as the construction loop leaves them.
BuiltGroups(h, evs, templates) ==
    GroupLoop(h, evs, templates, 1,
              [template_groups |-> <<>>, sorted |-> {}]).template_groups

\* The value group_templates(templates) returns.
group_templates(h, evs, templates) ==
    DropEmpty(BuiltGroups(h, evs, templates), 1)

\* The heap after group_templates(templates).
HeapAfterGroup(h, evs, templates) ==
    LET sorted == GroupLoop(h, evs, templates, 1,
                    [template_groups |-> <<>>, sorted |-> {}]).sorted
    IN [o \in DOMAIN h |->
          IF o \in sorted THEN [h[o] EXCEPT !.st = SortSt(h[o].st)]
          ELSE h[o]]

RECURSIVE Flatten(_)
\* The concatenation of the groups, in order.
Flatten(gs) ==
    IF gs = <<>> THEN <<>> ELSE Head(gs) \o Flatten(Tail(gs))

(***************************************************************************)
(* Grouping: group_templates on a list of templates, then on its own       *)
(* output.                                                                 *)
(***************************************************************************)

MaxInput == 3

\* A template by its fields.
MkTemplate(name, st, lowcut, highcut, prepick, event) ==
    [name |-> name, st |-> st, lowcut |-> lowcut, highcut |-> highcut,
     samp_rate |-> 100, filt_order |-> 4, process_length |-> 3600,
     prepick |-> prepick, event |-> event]

ChanA == MkTrace(1, 0, <<100, 200>>, 1)

ChanB == MkTrace(2, 0, <<100, 200>>, 1)

GroupStreams ==
    {StreamSt(<<>>), StreamSt(<<ChanB, ChanA>>), StreamSt(<<ChanB>>)}

GroupUniverse ==
    {MkTemplate(name, st, 2, highcut, 0, None) :
        name \in {<<97>>, <<98>>}, st \in GroupStreams, highcut \in {8, 10}}

SeqsUpTo(S, n) == UNION {[1..k -> S] : k \in 0..n}

\* The objects of a list are numbered in the order of their first occurrence.
FirstOccurrenceOrder(refs) ==
    \A k \in 1..Len(refs) :
        \/ refs[k] = 1
        \/ \E j \in 1..(k - 1) : refs[j] \in {refs[k] - 1, refs[k]}

NumObjects(refs) == Cardinality({refs[k] : k \in 1..Len(refs)})

\* Any list of at most MaxInput templates, the same object possibly more
\* than once in it.
InitGroup ==
    /\ input \in {refs \in SeqsUpTo(1..MaxInput, MaxInput) :
                    FirstOccurrenceOrder(refs)}
    /\ heap \in [1..NumObjects(input) -> GroupUniverse]
    /\ events = <<>>
    /\ groups = <<>>
    /\ regroups = <<>>
    /\ pc = "ready"
    /\ last = [op |-> "none"]
    /\ attached = {}

\* groups = group_templates(input)
GroupTemplates ==
    /\ pc = "ready"
    /\ groups' = group_templates(heap, events, input)
    /\ heap' = HeapAfterGroup(heap, events, input)
    /\ pc' = "grouped"
    /\ last' = [op |-> "group_templates",
                built |-> BuiltGroups(heap, events, input)]
    /\ UNCHANGED <<attached, events, input, regroups>>

\* regroups = group_templates(the concatenation of groups)
Regroup ==
    /\ pc = "grouped"
    /\ regroups' = group_templates(heap, events, Flatten(groups))
    /\ heap' = HeapAfterGroup(heap, events, Flatten(groups))
    /\ pc' = "regrouped"
    /\ last' = [op |-> "regroup",
                built |-> BuiltGroups(heap, events, Flatten(groups))]
    /\ UNCHANGED <<attached, events, input, groups>>

NextGroup == GroupTemplates \/ Regroup

SpecGroup == InitGroup /\ [][NextGroup]_vars

(***************************************************************************)
(* Comparison: ==, != and copy on pairs of templates                       *)
(***************************************************************************)

\* ChanA with other samples, with fewer samples, with another calibration
\* factor, and starting later.
ChanAData == MkTrace(1, 0, <<100, 300>>, 1)

ChanAShort == MkTrace(1, 0, <<100>>, 1)

ChanACalib == MkTrace(1, 0, <<100, 200>>, 2)

EqWaveforms ==
    {NoSt, TraceSt(ChanA),
     StreamSt(<<>>), StreamSt(<<ChanA>>), StreamSt(<<ChanAData>>),
     StreamSt(<<ChanACalib>>), StreamSt(<<ChanAShort>>),
     StreamSt(<<ChanB, ChanA>>), StreamSt(<<ChanA, ChanB>>),
     StreamSt(<<ChanA, ChanAData>>), StreamSt(<<ChanAData, ChanA>>)}

\* An obspy Event: its resource id, its origin time, its comments.
MkEvent(resource_id, origin_time, comments) ==
    [resource_id |-> resource_id, origin_time |-> origin_time,
     comments |-> comments]

\* Events 1 and 2 differ in their resource ids only, event 3 has another
\* origin time.
EqEvents == <<MkEvent(1, 0, <<>>), MkEvent(2, 0, <<>>), MkEvent(3, 20, <<>>)>>

EqUniverse ==
    {MkTemplate(nl[1], st, nl[2], 8, 0, event) :
        nl \in {<<<<97>>, 2>>, <<<<98>>, 2>>, <<<<97>>, 5>>},
        st \in EqWaveforms,
        event \in {None} \cup DOMAIN EqEvents}

InitEq ==
    /\ heap \in [1..2 -> EqUniverse]
    /\ events = EqEvents
    /\ input = <<>>
    /\ groups = <<>>
    /\ regroups = <<>>
    /\ pc = "ready"
    /\ last = [op |-> "none"]
    /\ attached = {}

\* heap[a] == heap[b]
EqCall(a, b) ==
    /\ pc \in {"ready", "copied"}
    /\ last' = [op |-> "eq", self |-> a, other |-> b,
                result |-> TemplateEq(events, heap[a], heap[b])]
    /\ heap' = HeapAfterEq(heap, a, b)
    /\ pc' = "compared"
    /\ UNCHANGED <<attached, events, input, groups, regroups>>

\* heap[a] != heap[b]
NeCall(a, b) ==
    /\ pc \in {"ready", "copied"}
    /\ last' = [op |-> "ne", self |-> a, other |-> b,
                result |-> TemplateNe(events, heap[a], heap[b])]
    /\ heap' = HeapAfterEq(heap, a, b)
    /\ pc' = "compared"
    /\ UNCHANGED <<attached, events, input, groups, regroups>>

\* copy.deepcopy of a template: a new Template object, with its own Stream
\* and its own Event.
DeepCopy(h, evs, a) ==
    IF IsEvent(h[a].event)
    THEN [heap |-> Append(h, [h[a] EXCEPT !.event = Len(evs) + 1]),
          events |-> Append(evs, evs[h[a].event])]
    ELSE [heap |-> Append(h, h[a]), events |-> evs]

\* heap[a].copy()
Copy(a) ==
    /\ pc = "ready"
    /\ heap' = DeepCopy(heap, events, a).heap
    /\ events' = DeepCopy(heap, events, a).events
    /\ last' = [op |-> "copy", self |-> a, result |-> Len(heap) + 1]
    /\ pc' = "copied"
    /\ UNCHANGED <<attached, input, groups, regroups>>

\* Any two templates are compared; once a copy is made, the copy is one of
\* the two.
Compared(a, b) == pc = "copied" => 3 \in {a, b}

NextEq ==
    \/ \E a, b \in DOMAIN heap : Compared(a, b) /\ EqCall(a, b)
    \/ \E a, b \in DOMAIN heap : Compared(a, b) /\ NeCall(a, b)
    \/ Copy(1)

SpecEq == InitEq /\ [][NextEq]_vars

(***************************************************************************)
(* Processing: attributes of a copy are assigned, then same_processing     *)
(***************************************************************************)

\* The values assigned to the attribute key.
AttrValues(key) ==
    CASE key = "name" -> {<<97>>, <<98>>}
      [] key = "st" -> {NoSt, StreamSt(<<ChanA>>)}
      [] key = "lowcut" -> {None, 2, 5}
      [] key = "highcut" -> {8, 10}
      [] key = "samp_rate" -> {50, 100}
      [] key = "filt_order" -> {3, 4}
      [] key = "process_length" -> {3600, 86400}
      [] key = "prepick" -> {0, 1}
      [] key = "event" -> {None, 3}

InitProc ==
    /\ heap \in [1..1 ->
                  {MkTemplate(<<97>>, StreamSt(<<ChanA>>), lowcut, 8, 0, event) :
                      lowcut \in {None, 2}, event \in {None, 1}}]
    /\ events = EqEvents
    /\ input = <<>>
    /\ groups = <<>>
    /\ regroups = <<>>
    /\ pc = "ready"
    /\ last = [op |-> "none"]
    /\ attached = {}

\* heap[o].key = value, for a value other than the present one
SetAttr(o, key, value) ==
    /\ pc = "copied"
    /\ heap[o][key] # value
    /\ heap' = [heap EXCEPT ![o][key] = value]
    /\ last' = [op |-> "setattr", self |-> o, key |-> key]
    /\ UNCHANGED <<attached, events, input, groups, regroups, pc>>

\* heap[a].same_processing(heap[b])
SameProcessingCall(a, b) ==
    /\ pc = "copied"
    /\ last' = [op |-> "same_processing", self |-> a, other |-> b,
                result |-> same_processing(heap[a], heap[b])]
    /\ pc' = "compared"
    /\ UNCHANGED <<attached, heap, events, input, groups, regroups>>

NextProc ==
    \/ Copy(1)
    \/ \E k \in 1..Len(TemplateKeys) :
          \E value \in AttrValues(TemplateKeys[k]) :
              SetAttr(2, TemplateKeys[k], value)
    \/ \E a, b \in DOMAIN heap : SameProcessingCall(a, b)

SpecProc == InitProc /\ [][NextProc]_vars

(***************************************************************************)
(* Template.__init__, Template.construct, Template.read                    *)
(***************************************************************************)

MaxObjects == 1

MaxEvents == 2

MaxHeap == 2

\* The characters of the class [-A-Za-z_0-9].
NameChars == {45, 95} \cup (48..57) \cup (65..90) \cup (97..122)

\* re.match(name_regex, name) for the pattern ^[-A-Za-z_0-9]+$ : one or more
\* characters of the class and then the end of the string, where $ also
\* matches before a newline that ends the string.
NameRegexMatch(name) ==
    LET n == IF Len(name) > 0 /\ name[Len(name)] = 10
             THEN Len(name) - 1 ELSE Len(name)
    IN /\ n >= 1
       /\ \A k \in 1..n : name[k] \in NameChars

\* "unnamed"
Unnamed == <<117, 110, 110, 97, 109, 101, 100>>

\* temp_name
TempName(name) == IF name = NoName THEN Unnamed ELSE name

\* "eqcorrscan_template_" + temp_name
MarkerText(temp_name) ==
    <<101, 113, 99, 111, 114, 114, 115, 99, 97, 110, 95,
      116, 101, 109, 112, 108, 97, 116, 101, 95>> \o temp_name

\* Comment(text=..., creation_info=CreationInfo(agency='eqcorrscan', ...))
MarkerComment(temp_name) ==
    [text |-> MarkerText(temp_name), agency |-> "eqcorrscan"]

\* [c.text for c in event.comments]
CommentTexts(ev) == {ev.comments[k].text : k \in 1..Len(ev.comments)}

\* Some tr of st has a sampling rate other than samp_rate; an empty Stream
\* and None are false in "if st".
RatesMismatch(st, samp_rate) ==
    /\ IsStream(st)
    /\ st.traces # <<>>
    /\ samp_rate # None
    /\ \E k \in 1..Len(st.traces) : st.traces[k].sampling_rate # samp_rate

\* AttachMarker without the test for a marker that is there already.
AttachMarkerAlways(evs, event, temp_name) ==
    IF event = None THEN evs
    ELSE [evs EXCEPT ![event].comments = Append(@, MarkerComment(temp_name))]

\* The events after __init__ has attached the marker of temp_name to event.
AttachMarker(evs, event, temp_name) ==
    IF event = None \/ MarkerText(temp_name) \in CommentTexts(evs[event])
    THEN evs
    ELSE [evs EXCEPT ![event].comments = Append(@, MarkerComment(temp_name))]

\* Template(name, st, ..., event): the error raised ("none" when it returns),
\* the new object and the events afterwards.
TemplateInit(evs, name, st, p, event) ==
    IF name # NoName /\ ~NameRegexMatch(name)
    THEN [error |-> "ValueError", events |-> evs]
    ELSE IF RatesMismatch(st, p.samp_rate)
    THEN [error |-> "MatchFilterError", events |-> evs]
    ELSE [error |-> "none",
          template |->
             [name |-> name, st |-> st, lowcut |-> p.lowcut,
              highcut |-> p.highcut, samp_rate |-> p.samp_rate,
              filt_order |-> p.filt_order,
              process_length |-> p.process_length,
              prepick |-> p.prepick, event |-> event],
          events |-> AttachMarker(evs, event, TempName(name))]

\* Template() passes no parameters; the others are those of the doctests,
\* at the sampling rate of ChanA and at another one.
NoParams ==
    [lowcut |-> None, highcut |-> None, samp_rate |-> None,
     filt_order |-> None, process_length |-> None, prepick |-> None]

DocParams(samp_rate) ==
    [lowcut |-> 2, highcut |-> 8, samp_rate |-> samp_rate,
     filt_order |-> 4, process_length |-> 3600, prepick |-> 0]

\* None, "a", "a\n", "a b" and "unnamed".
NameInputs == {NoName, <<97>>, <<97, 10>>, <<97, 32, 98>>, Unnamed}

\* Template(name=name, st=st, ..., event=event)
New(name, st, p, event) ==
    /\ LET r == TemplateInit(events, name, st, p, event)
       IN /\ heap' = IF r.error = "none" THEN Append(heap, r.template)
                     ELSE heap
          /\ events' = r.events
          /\ attached' = IF r.error = "none" /\ event # None
                         THEN attached \cup {<<event, TempName(name)>>}
                         ELSE attached
          /\ last' = [op |-> "init", name |-> name, event |-> event,
                      error |-> r.error]
    /\ UNCHANGED <<input, groups, regroups, pc>>

\* A sample is a multiple of 2^-26.  astype(np.float16) rounds it to the
\* nearest multiple of 2^-24, the even one of two equally near: the value it
\* gives, in units of 2^-24, for samples below 2^-14 in size.
AsFloat16(x) ==
    LET a == IF x < 0 THEN 0 - x ELSE x
        q == a \div 4
        r == a % 4
        m == IF r < 2 THEN q
             ELSE IF r > 2 THEN q + 1
             ELSE IF q % 2 = 0 THEN q ELSE q + 1
    IN IF x < 0 THEN 0 - m ELSE m

\* not np.any(tr.data.astype(np.float16))
ZeroInFloat16(tr) ==
    \A k \in 1..Len(tr.data) : AsFloat16(tr.data[k]) = 0

\* st.remove(tr): the first trace equal to tr goes.
RemoveTrace(traces, tr) ==
    LET k == CHOOSE k \in 1..Len(traces) :
                /\ traces[k] = tr
                /\ \A j \in 1..(k - 1) : traces[j] # tr
    IN SubSeq(traces, 1, k - 1) \o SubSeq(traces, k + 1, Len(traces))

RECURSIVE RemoveZeroFromLive(_, _, _)
\* RemoveZeroFrom on the list of traces itself: a trace that moves into the
\* place of a removed one is passed over.
RemoveZeroFromLive(snapshot, traces, k) ==
    IF k > Len(traces) THEN traces
    ELSE IF ZeroInFloat16(traces[k])
         THEN RemoveZeroFromLive(snapshot, RemoveTrace(traces, traces[k]),
                                 k + 1)
         ELSE RemoveZeroFromLive(snapshot, traces, k + 1)

RECURSIVE RemoveZeroFrom(_, _, _)
\* The loop "for tr in st" of construct from the k-th trace on.  A Stream
\* iterates over a copy of its list of traces (snapshot), so that remove
\* does not disturb the loop.
RemoveZeroFrom(snapshot, traces, k) ==
    IF k > Len(snapshot) THEN traces
    ELSE IF ZeroInFloat16(snapshot[k])
         THEN RemoveZeroFrom(snapshot, RemoveTrace(traces, snapshot[k]), k + 1)
         ELSE RemoveZeroFrom(snapshot, traces, k + 1)

\* Channels that are zero in float16, one of them not zero in itself.
ChanZero == MkTrace(3, 0, <<0, 0>>, 1)

ChanTiny == MkTrace(4, 0, <<2, 1>>, 1)

\* streams[0] as template_gen returns it.
GenStreams ==
    {<<ChanA>>, <<ChanZero, ChanA>>, <<ChanZero, ChanTiny, ChanA>>}

\* The methods construct does not support.
TribeMethods ==
    {"from_meta_file", "from_seishub", "from_client", "multi_template_gen"}

\* heap[o].construct(method, name, lowcut=2, highcut=8, samp_rate=100,
\* filt_order=4, prepick=0, ...), where template_gen raises (gen = <<>>)
\* or returns the stream gen[1], a new event and the process length 300.
Construct(o, method, name, gen) ==
    /\ IF method \in TribeMethods
       THEN /\ last' = [op |-> "construct", self |-> o, name |-> name,
                        gen |-> gen,
                        error |-> "NotImplementedError"]
            /\ UNCHANGED <<heap, events>>
       ELSE IF gen = <<>>
       THEN /\ last' = [op |-> "construct", self |-> o, name |-> name,
                        gen |-> gen,
                        error |-> "template_gen"]
            /\ UNCHANGED <<heap, events>>
       ELSE /\ Len(events) < MaxEvents
            /\ events' = Append(events, MkEvent(Len(events) + 1, 0, <<>>))
            /\ heap' = [heap EXCEPT ![o] =
                  [name |-> name,
                   st |-> StreamSt(RemoveZeroFrom(gen[1], gen[1], 1)),
                   lowcut |-> 2, highcut |-> 8, samp_rate |-> 100,
                   filt_order |-> 4, process_length |-> 300,
                   prepick |-> 0, event |-> Len(events) + 1]]
            /\ last' = [op |-> "construct", self |-> o, name |-> name,
                        gen |-> gen,
                        error |-> "none"]
    /\ UNCHANGED <<attached, input, groups, regroups, pc>>

\* The templates that Tribe.read finds in an archive: each was written from
\* a Template and is built again by Template(...), without an event here.
ArchiveTemplates ==
    {MkTemplate(name, StreamSt(<<ChanA>>), 2, 8, 0, None) :
        name \in {<<97>>, <<98>>}}

\* read without the check of the number of templates: the first is loaded.
ReadFirstOfMany(o, tribe) ==
    /\ IF Len(tribe) = 0
       THEN /\ last' = [op |-> "read", self |-> o, tribe |-> tribe,
                        error |-> "IndexError"]
            /\ UNCHANGED heap
       ELSE /\ heap' = [heap EXCEPT ![o] = tribe[1]]
            /\ last' = [op |-> "read", self |-> o, tribe |-> tribe,
                        error |-> "none"]
    /\ UNCHANGED <<attached, events, input, groups, regroups, pc>>

\* heap[o].read(filename), the archive holding the templates of tribe
Read(o, tribe) ==
    /\ IF Len(tribe) > 1
       THEN /\ last' = [op |-> "read", self |-> o, tribe |-> tribe,
                        error |-> "IOError"]
            /\ UNCHANGED heap
       ELSE IF Len(tribe) = 0
       THEN /\ last' = [op |-> "read", self |-> o, tribe |-> tribe,
                        error |-> "IndexError"]
            /\ UNCHANGED heap
       ELSE /\ heap' = [heap EXCEPT ![o] =
                  [key \in DOMAIN heap[o] |-> tribe[1][key]]]
            /\ last' = [op |-> "read", self |-> o, tribe |-> tribe,
                        error |-> "none"]
    /\ UNCHANGED <<attached, events, input, groups, regroups, pc>>

\* One event that templates are made for: without comments, with a comment
\* of the user, or with the marker of template "a" from an earlier run.
InitialComments ==
    {<<>>,
     <<[text |-> <<104, 105>>, agency |-> "user"]>>,
     <<MarkerComment(<<97>>)>>}

Init ==
    /\ heap = <<>>
    /\ events \in {<<MkEvent(1, 0, comments)>> : comments \in InitialComments}
    /\ input = <<>>
    /\ groups = <<>>
    /\ regroups = <<>>
    /\ pc = "run"
    /\ last = [op |-> "none"]
    /\ attached = {}

\* Template(name, ...) with each of the names, without a waveform, and with
\* one at its sampling rate and at another.
NewAny ==
    \E name \in NameInputs, event \in {None} \cup DOMAIN events :
        \/ New(name, NoSt, NoParams, event)
        \/ \E samp_rate \in {50, 100} :
              New(name, StreamSt(<<ChanA>>), DocParams(samp_rate), event)

Next ==
    \/ Len(heap) < MaxObjects /\ NewAny
    \/ \E o \in DOMAIN heap, name \in NameInputs \ {NoName} :
          \/ Construct(o, "from_meta_file", name, <<>>)
          \/ Construct(o, "from_sac", name, <<>>)
          \/ \E stream \in GenStreams :
                Construct(o, "from_sac", name, <<stream>>)
    \/ \E o \in DOMAIN heap, tribe \in SeqsUpTo(ArchiveTemplates, 2) :
          Read(o, tribe)

Spec == Init /\ [][Next]_vars

MaxChannels == 3

\* construct alone, on a template made by Template(), for every stream of up
\* to MaxChannels channels that template_gen may return: channels with data,
\* zero channels and channels that are zero in float16 only, in every
\* arrangement, the same channel more than once included.
InitConstruct ==
    /\ heap = <<TemplateInit(<<>>, NoName, NoSt, NoParams, None).template>>
    /\ events = <<>>
    /\ input = <<>>
    /\ groups = <<>>
    /\ regroups = <<>>
    /\ pc = "run"
    /\ last = [op |-> "none"]
    /\ attached = {}

NextConstruct ==
    \E stream \in SeqsUpTo({ChanA, ChanB, ChanZero, ChanTiny}, MaxChannels) :
        Construct(1, "from_sac", <<97>>, <<stream>>)

SpecConstruct == InitConstruct /\ [][NextConstruct]_vars

\* Constructions only: up to MaxHeap templates are made for the same events.
InitAttach ==
    /\ heap = <<>>
    /\ events \in {<<MkEvent(1, 0, comments), MkEvent(2, 20, <<>>)>> :
                     comments \in InitialComments}
    /\ input = <<>>
    /\ groups = <<>>
    /\ regroups = <<>>
    /\ pc = "run"
    /\ last = [op |-> "none"]
    /\ attached = {}

NextAttach == Len(heap) < MaxHeap /\ NewAny

SpecAttach == InitAttach /\ [][NextAttach]_vars

(***************************************************************************)
(* detect: the correlation sum of a template with the data, as _group_detect*)
(* computes it, is given; its peaks are thinned as the design describes.   *)
(***************************************************************************)

MaxSamples == 4

MaxCorr == 3

\* The samples that exceed the cutoff, in the order of the series.
Candidates(cccsum, cutoff) ==
    SelectSeq([k \in 1..Len(cccsum) |-> [index |-> k, value |-> cccsum[k]]],
              LAMBDA c : c.value > cutoff)

\* Two samples less than the trigger interval apart.
Conflict(c, d, radius) ==
    (IF c.index < d.index THEN d.index - c.index ELSE c.index - d.index)
        < radius

RECURSIVE ScanFrom(_, _, _, _)
\* One pass over the candidates from the k-th on: a candidate in conflict
\* with the last retained one replaces it if it is higher and is dropped if
\* not (ties keep the earliest); any other candidate is retained.
ScanFrom(candidates, radius, k, retained) ==
    IF k > Len(candidates) THEN retained
    ELSE LET c == candidates[k]
             n == Len(retained)
         IN IF n > 0 /\ Conflict(retained[n], c, radius)
            THEN IF c.value > retained[n].value
                 THEN ScanFrom(candidates, radius, k + 1,
                               [retained EXCEPT ![n] = c])
                 ELSE ScanFrom(candidates, radius, k + 1, retained)
            ELSE ScanFrom(candidates, radius, k + 1, Append(retained, c))

\* deduplicate(correlation_sum_series, cutoff, trig_int_seconds, sample_rate)
Deduplicate(cccsum, cutoff, trig_int, samp_rate) ==
    ScanFrom(Candidates(cccsum, cutoff), trig_int * samp_rate, 1, <<>>)

\* _group_detect(templates, stream, threshold, "absolute", trig_int): one
\* family of detections for each template, cccsums[k] being the correlation
\* sum of templates[k] with the stream.
group_detect(h, templates, cccsums, threshold, trig_int) ==
    [k \in 1..Len(templates) |->
        [template |-> templates[k],
         detections |-> Deduplicate(cccsums[k], threshold, trig_int,
                                    h[templates[k]].samp_rate)]]

\* detect that asks for no trigger interval.
DetectWithoutTrigInt(o, cccsum, threshold, trig_int) ==
    /\ pc = "ready"
    /\ LET party == group_detect(heap, <<o>>, <<cccsum>>, threshold, 0)
       IN last' = [op |-> "detect", self |-> o, cccsum |-> cccsum,
                   threshold |-> threshold, trig_int |-> trig_int,
                   result |-> party[1]]
    /\ pc' = "detected"
    /\ UNCHANGED <<heap, events, input, groups, regroups, attached>>

\* heap[o].detect(stream, threshold, "absolute", trig_int)
Detect(o, cccsum, threshold, trig_int) ==
    /\ pc = "ready"
    /\ LET party == group_detect(heap, <<o>>, <<cccsum>>, threshold, trig_int)
       IN last' = [op |-> "detect", self |-> o, cccsum |-> cccsum,
                   threshold |-> threshold, trig_int |-> trig_int,
                   result |-> party[1]]
    /\ pc' = "detected"
    /\ UNCHANGED <<heap, events, input, groups, regroups, attached>>

\* One template, sampled at 1 or 2 Hz.
InitDetect ==
    /\ heap \in {<<[MkTemplate(<<97>>, StreamSt(<<ChanA>>), 2, 8, 0, None)
                      EXCEPT !.samp_rate = samp_rate]>> :
                  samp_rate \in {1, 2}}
    /\ events = <<>>
    /\ input = <<>>
    /\ groups = <<>>
    /\ regroups = <<>>
    /\ pc = "ready"
    /\ last = [op |-> "none"]
    /\ attached = {}

NextDetect ==
    \E o \in DOMAIN heap, cccsum \in SeqsUpTo(0..MaxCorr, MaxSamples),
       threshold \in {0, 1}, trig_int \in {1, 2} :
        Detect(o, cccsum, threshold, trig_int)

SpecDetect == InitDetect /\ [][NextDetect]_vars

(***************************************************************************)
(* Properties of the comparison operators                                  *)
(***************************************************************************)

\* The last operation was a == b and it returned True.
LastEqTrue ==
    /\ pc = "compared"
    /\ last.op = "eq"
    /\ last.result

\* Every field but st and event agrees.
ScalarsAgree(a, b) ==
    \A k \in 1..Len(TemplateKeys) :
        TemplateKeys[k] \notin {"st", "event"}
            => a[TemplateKeys[k]] = b[TemplateKeys[k]]

\* The events are the same object, or both are absent.
SameEvent(a, b) == a.event = b.event

\* C3: == on two templates whose waveforms are both Streams is True only if
\* the Streams, sorted by channel, have the same number of channels and
\* agree channel by channel on the data and on the ten header fields; a
\* template that misses channels of the other compares unequal.
C3_EqualStreamsAgree ==
    LastEqTrue =>
        LET a == heap[last.self]
            b == heap[last.other]
        IN (IsStream(a.st) /\ IsStream(b.st)) =>
              /\ Len(a.st.traces) = Len(b.st.traces)
              /\ \A k \in 1..Len(a.st.traces) :
                    LET tr == SortTraces(a.st.traces)[k]
                        oth_tr == SortTraces(b.st.traces)[k]
                    IN /\ tr.data = oth_tr.data
                       /\ \A f \in {TraceKeys[n] : n \in 1..Len(TraceKeys)} :
                             tr[f] = oth_tr[f]

\* C4: when the scalar fields and the event agree, one waveform is a single
\* Trace and the other is None or an empty Stream, == returns False, in
\* both orders.
C4_TraceAgainstAbsent ==
    (pc = "compared" /\ last.op = "eq") =>
        LET a == heap[last.self]
            b == heap[last.other]
            Absent(st) == st = NoSt \/ st = StreamSt(<<>>)
        IN (/\ ScalarsAgree(a, b)
            /\ SameEvent(a, b)
            /\ \/ a.st.kind = "Trace" /\ Absent(b.st)
               \/ b.st.kind = "Trace" /\ Absent(a.st))
           => last.result = FALSE

\* C5: == is reflexive and symmetric, T == T.copy() is True, and != is the
\* negation of ==.
C5_ReflexiveSymmetric ==
    /\ (pc # "compared" =>
          \A a, b \in DOMAIN heap :
              /\ TemplateEq(events, heap[a], heap[a])
              /\ TemplateEq(events, heap[a], heap[b])
                    = TemplateEq(events, heap[b], heap[a])
              /\ TemplateNe(events, heap[a], heap[b])
                    = ~TemplateEq(events, heap[a], heap[b]))
    /\ (pc = "copied" =>
          /\ TemplateEq(events, heap[last.self], heap[last.result])
          /\ TemplateEq(events, heap[last.result], heap[last.self]))
    /\ (pc = "compared" =>
          /\ last.op = "eq" =>
                last.result
                   = TemplateEq(events, heap[last.other], heap[last.self])
          /\ last.op = "ne" =>
                last.result
                   = ~TemplateEq(events, heap[last.self], heap[last.other])
          /\ (last.self = last.other /\ last.op = "eq") => last.result
          /\ (Len(heap) = 3 /\ {last.self, last.other} = {1, 3}) =>
                last.result = (last.op = "eq"))

\* A template with two channels and an event has been compared with its
\* copy, and != returned False.
C5_Witness ==
    /\ pc = "compared"
    /\ last.op = "ne"
    /\ last.self = 3
    /\ last.other = 1
    /\ last.result = FALSE
    /\ heap[1].st = StreamSt(<<ChanA, ChanB>>)
    /\ IsEvent(heap[1].event)
    /\ heap[3].event # heap[1].event

\* The keys on which two templates differ.
DifferingKeys(a, b) ==
    {TemplateKeys[k] : k \in {n \in 1..Len(TemplateKeys) :
                                a[TemplateKeys[n]] # b[TemplateKeys[n]]}}

ProcessingKeys ==
    {"lowcut", "highcut", "samp_rate", "filt_order", "process_length"}

\* C6: same_processing(a, b) is True exactly when a and b agree on lowcut,
\* highcut, samp_rate, filt_order and process_length: a copy that differs
\* from its original in name, st, prepick or event only is same_processing,
\* a copy that differs in one of the five is not.
C6_SameProcessing ==
    pc = "compared" /\ last.op = "same_processing" =>
        LET diff == DifferingKeys(heap[last.self], heap[last.other])
        IN /\ diff \subseteq {"name", "st", "prepick", "event"}
                => last.result = TRUE
           /\ diff \cap ProcessingKeys # {} => last.result = FALSE

\* A copy that differs from its original in name, waveform, prepick and
\* event, and in nothing else, has been found same_processing.
C6_Witness ==
    /\ pc = "compared"
    /\ last.op = "same_processing"
    /\ last.self = 1
    /\ last.other = 2
    /\ DifferingKeys(heap[1], heap[2]) = {"name", "st", "prepick", "event"}
    /\ last.result = TRUE

(***************************************************************************)
(* Properties of the constructors                                          *)
(***************************************************************************)

\* C9: a template whose name is set has a name that matches
\* ^[-A-Za-z_0-9]+$, and a name that does not match is rejected with an error
\* by the operation that receives it.
C9_NamesValid ==
    /\ \A o \in DOMAIN heap :
          heap[o].name # NoName => NameRegexMatch(heap[o].name)
    /\ (/\ last.op \in {"init", "construct"}
        /\ last.name # NoName
        /\ ~NameRegexMatch(last.name))
       => last.error # "none"

\* The number of comments of ev with the given text.
CountText(ev, text) ==
    Cardinality({k \in 1..Len(ev.comments) : ev.comments[k].text = text})

\* s is the beginning of t
IsPrefix(s, t) == Len(s) <= Len(t) /\ SubSeq(t, 1, Len(s)) = s

\* C10: an event holds the marker of each template name it was passed with
\* to a construction ("unnamed" for no name) exactly once; a construction
\* with an event and a name used before appends nothing, and no construction
\* removes or alters a comment.
C10_MarkerOnce ==
    /\ [](\A pair \in attached :
             CountText(events[pair[1]], MarkerText(pair[2])) = 1)
    /\ [][/\ \A e \in DOMAIN events :
                IsPrefix(events[e].comments, events'[e].comments)
          /\ (/\ last'.op = "init"
              /\ last'.event # None
              /\ <<last'.event, TempName(last'.name)>> \in attached)
             => events' = events]_vars

\* Two templates named "a" have been made for event 1, which had a comment
\* of the user before, and the event holds one marker.
C10_Witness ==
    /\ Len(heap) = 2
    /\ heap[1].event = 1
    /\ heap[2].event = 1
    /\ heap[1].name = <<97>>
    /\ heap[2].name = <<97>>
    /\ Len(events[1].comments) = 2
    /\ events[1].comments[1].agency = "user"
    /\ events[1].comments[2] = MarkerComment(<<97>>)

\* C11: read of an archive that holds more than one template ends in an
\* error and leaves every field of the receiver, and every other template,
\* as it was; read of an archive that holds exactly one template returns
\* and sets every field of the receiver to the field of that template.
C11_ReadOneOrFail ==
    [][last'.op = "read" =>
          /\ Len(last'.tribe) > 1 =>
                /\ last'.error = "IOError"
                /\ heap' = heap
          /\ Len(last'.tribe) = 1 =>
                /\ last'.error = "none"
                /\ \A k \in 1..Len(TemplateKeys) :
                      heap'[last'.self][TemplateKeys[k]]
                         = last'.tribe[1][TemplateKeys[k]]
                /\ \A o \in DOMAIN heap \ {last'.self} : heap'[o] = heap[o]
                /\ DOMAIN heap' = DOMAIN heap]_vars

\* A template that was read from an archive of template "a" alone has met
\* an archive of "b" and "a", and is as the first archive made it.
C11_Witness ==
    /\ last.op = "read"
    /\ last.error = "IOError"
    /\ Len(last.tribe) = 2
    /\ last.tribe[1].name = <<98>>
    /\ heap[last.self] \in ArchiveTemplates
    /\ heap[last.self].name = <<97>>

\* The stream that the last construct got from template_gen.
Generated == last.gen[1]

\* C15: after construct has returned, the waveform stored holds no channel
\* whose data are all zero in float16: every such channel of the generated
\* stream is gone, however many there are and wherever they stand, and the
\* channels that are not zero in float16 are all there, in their order.
C15_ZeroChannelsRemoved ==
    (last.op = "construct" /\ last.error = "none") =>
        LET st == heap[last.self].st
        IN /\ IsStream(st)
           /\ \A k \in 1..Len(st.traces) :
                 \E n \in 1..Len(st.traces[k].data) :
                     AsFloat16(st.traces[k].data[n]) # 0
           /\ st.traces
                 = SelectSeq(Generated,
                             LAMBDA tr : \E n \in 1..Len(tr.data) :
                                            AsFloat16(tr.data[n]) # 0)

\* Two channels that are zero in float16 stood next to one another before a
\* channel with data: the channel with data alone is stored.
C15_Witness ==
    /\ last.op = "construct"
    /\ last.error = "none"
    /\ Generated = <<ChanZero, ChanTiny, ChanA>>
    /\ heap[last.self].st = StreamSt(<<ChanA>>)

(***************************************************************************)
(* Properties of detect                                                    *)
(***************************************************************************)

\* The elements of a sequence.
Range(seq) == {seq[k] : k \in 1..Len(seq)}

\* The trigger interval of the last detect, in samples.
LastRadius == last.trig_int * heap[last.self].samp_rate

\* No two of the detections returned are closer than trig_int apart, and
\* they are candidates in the order of the series.
DetectionsApart ==
    LET dets == last.result.detections
    IN /\ \A i, j \in 1..Len(dets) :
             i < j => /\ dets[i].index < dets[j].index
                      /\ ~Conflict(dets[i], dets[j], LastRadius)
       /\ Range(dets) \subseteq Range(Candidates(last.cccsum, last.threshold))

ProcessingParameters(t) ==
    <<t.lowcut, t.highcut, t.samp_rate, t.filt_order, t.process_length>>

Members(group) == {group[k] : k \in 1..Len(group)}

\* The position of the first occurrence of object o in the list refs.
FirstPos(refs, o) ==
    CHOOSE k \in 1..Len(refs) :
        refs[k] = o /\ \A j \in 1..(k - 1) : refs[j] # o

RECURSIVE IsSubsequence(_, _)
\* s is t with some elements left out
IsSubsequence(s, t) ==
    IF s = <<>> THEN TRUE
    ELSE IF t = <<>> THEN FALSE
    ELSE IF Head(s) = Head(t) THEN IsSubsequence(Tail(s), Tail(t))
    ELSE IsSubsequence(s, Tail(t))

\* C1: for an input whose processing parameters take K distinct values,
\* group_templates returns exactly K non-empty groups, every template of the
\* input is in exactly one group, two templates of one group are
\* same_processing-equal and two templates of different groups are not.
C1_GroupsPartitionInput ==
    pc = "grouped" =>
        /\ Len(groups) =
             Cardinality({ProcessingParameters(heap[input[k]]) :
                            k \in 1..Len(input)})
        /\ \A g \in 1..Len(groups) : groups[g] # <<>>
        /\ \A k \in 1..Len(input) :
             Cardinality({g \in 1..Len(groups) :
                            input[k] \in Members(groups[g])}) = 1
        /\ \A g \in 1..Len(groups) :
             \A a, b \in Members(groups[g]) :
                same_processing(heap[a], heap[b])
        /\ \A g1, g2 \in 1..Len(groups) :
             g1 # g2 =>
                \A a \in Members(groups[g1]), b \in Members(groups[g2]) :
                    ~same_processing(heap[a], heap[b])

\* C2: group_templates and the comparisons it makes leave every template as
\* it was: the same field values, the same order of the channels.
C2_InputsUnchanged == [][heap' = heap]_vars

\* C7: the groups come in the order in which their masters occur in the
\* input; in a group the master is first and the others follow in their
\* order in the input; a master is the earliest template of its group.
C7_OutputOrder ==
    pc = "grouped" =>
        /\ \A g1, g2 \in 1..Len(groups) :
             g1 < g2 =>
                FirstPos(input, groups[g1][1]) < FirstPos(input, groups[g2][1])
        /\ \A g \in 1..Len(groups) :
             /\ IsSubsequence(groups[g], input)
             /\ \A k \in 2..Len(groups[g]) :
                  FirstPos(input, groups[g][1])
                     < FirstPos(input, groups[g][k])

\* Two groups, the master of the second standing in the input between the
\* two members of the first.
C7_Witness ==
    /\ pc = "grouped"
    /\ Len(input) = 3
    /\ Len(groups) = 2
    /\ Len(groups[1]) = 2
    /\ groups[2][1] = input[2]

\* C8: group_templates applied to the concatenation of the groups it
\* returned returns the same groups, with the same members in the same order.
C8_Idempotent == pc = "regrouped" => regroups = groups

\* A regrouped result of two groups, one of them with two members.
C8_Witness ==
    /\ pc = "regrouped"
    /\ Len(groups) = 2
    /\ \E g \in 1..Len(groups) : Len(groups[g]) = 2
    /\ regroups = groups

\* The number of distinct values of the processing parameters in the input.
NumClasses ==
    Cardinality({ProcessingParameters(heap[input[k]]) : k \in 1..Len(input)})

\* The masters of the groups returned.
Masters == {groups[g][1] : g \in 1..Len(groups)}

\* Templates a and b differ in name and in nothing else.
DifferInNameOnly(a, b) == DifferingKeys(heap[a], heap[b]) = {"name"}

\* C13 as stated: when the input holds two templates that are
\* same_processing-equal but not fully equal, such as two that differ in name
\* only, each of them becomes the master of a group of its own, and there
\* are more groups than classes of processing parameters.
C13_UnequalMastersBoth ==
    pc = "grouped" =>
        \A a, b \in Range(input) :
            DifferInNameOnly(a, b) =>
                /\ {a, b} \subseteq Masters
                /\ Len(groups) > NumClasses

\* C13 as amended: a template is passed over as master exactly when it is
\* the same object as, or equal to, a member of a group built for an earlier
\* master; a template that is same_processing-equal but not equal to an
\* earlier master is such a member, so that no two masters are
\* same_processing-equal and there are as many groups as classes of
\* processing parameters.
C13_OneMasterPerClass ==
    pc = "grouped" =>
        /\ Len(groups) = NumClasses
        /\ \A a, b \in Masters : a # b => ~same_processing(heap[a], heap[b])
        /\ \A k \in 1..Len(input) :
              (input[k] \notin Masters \/ FirstPos(input, input[k]) < k)
                 <=> \E g \in 1..Len(groups) :
                        /\ FirstPos(input, groups[g][1]) < k
                        /\ \E m \in Members(groups[g]) :
                              \/ m = input[k]
                              \/ TemplateEq(events, heap[m], heap[input[k]])

\* Two templates that differ in name only, and a third of another class:
\* the second is a member of the group of the first and not a master.
C13_Witness ==
    /\ pc = "grouped"
    /\ Len(input) = 3
    /\ DifferInNameOnly(input[1], input[2])
    /\ ~same_processing(heap[input[1]], heap[input[3]])
    /\ groups = <<<<input[1], input[2]>>, <<input[3]>>>>

=============================================================================
